---- MODULE Spec2Model ----
(***************************************************************************)
(* Kettle: the silence-gated pipeline scheduler of kettle_monitor.py and   *)
(* the message store of slack_fetch.py.                                    *)
(*                                                                         *)
(* Time is the wall clock in seconds.  A Slack message's ts is the clock   *)
(* value at which it was posted.  The poll loop (one thread) runs          *)
(* check_slack_messages; every accepted trigger launches one worker        *)
(* thread running _run_pipeline.  The files json/messages.json,            *)
(* json/last_processed_ts.txt and json/batch.json are shared by the poll   *)
(* loop and the workers; each file read and each file write is one atomic  *)
(* step, and steps of different threads interleave freely.                 *)
(***************************************************************************)
EXTENDS Integers, Sequences, FiniteSets, TLC

\* ------------------------------------------------------------- bounds
\* The clock is sampled every TimeStep seconds, up to MaxTime.
TimeStep == 30
MaxTime == 180
\* Messages posted to the channel in one behaviour.
MaxMsgs == 3
\* Worker threads launched in one behaviour.
MaxRunners == 2
\* slack_fetch.MESSAGE_LIMIT is 50 in the source; it is scaled down with
\* MaxMsgs so that the channel can hold more messages than one fetch returns.
MESSAGE_LIMIT == 2

\* -------------------------------------------------- program constants
poll_interval == 10
silence_seconds == 60
cooldown_after_run == 5

BOT_USER_ID == "BOT"
Users == {"U1", BOT_USER_ID}
Texts == {"t"}

Runners == 1..MaxRunners

VARIABLES
    now,                  \* time.time()
    slack,                \* the channel's history, newest first
    store,                \* json/messages.json: the list under "messages"
    wmFile,               \* json/last_processed_ts.txt (0: empty or absent)
    batchFile,            \* json/batch.json: <<"absent">> or <<"file", list>>
    last_slack_check,     \* KettleMonitor.last_slack_check
    last_processed_ts,    \* KettleMonitor.last_processed_ts
    last_new_message_ts,  \* KettleMonitor.last_new_message_ts
    pipeline_running,     \* KettleMonitor.pipeline_running
    ppc,                  \* the poll loop's position in check_slack_messages
    p_combined,           \* save_messages' local `combined`
    rpc,                  \* each worker's position in _run_pipeline
    snapshot_latest_ts,   \* each worker's argument
    current_msgs,         \* each worker's local `current_msgs`: its batch
    outcome,              \* each worker's end: "none", "ok", "failed"
    raised,               \* the step of the worker's run that raised, if any
    raw_response,         \* the response extraction had to parse in the run
    released_at,          \* the time the worker released pipeline_running
    \* History, read by no action:
    saved,                \* ts of every message save_messages has written
    seen,                 \* ts of every message _read_messages has returned
    claimed,              \* ts of every message some run took into its batch
    processed,            \* ts of the messages in the batches of successful runs
    failed_ts,            \* ts of the messages of failed batches not claimed since
    owed,                 \* each worker: failed_ts when it was launched
    \* save_messages called on its own (slack_fetch.main):
    messages,             \* save_messages' parameter: the fetched list
    existing,             \* save_messages' local `existing`
    \* The project records and the calls of the two project_matcher modules:
    embeddings_file,      \* json/project_embeddings.json
    collection,           \* the MongoDB collection project_embeddings
    mongo_up,             \* the MongoDB server answers
    manager,              \* mongodb_config._embedding_manager is not None
    pm_pc,                \* "idle", or the function being called
    pm_module,            \* the module of the call
    pm_folder,            \* save_project_embedding's `folder`
    pm_messages,          \* the call's `messages`
    pm_result,            \* find_closest_project's return value
    pm_raised,            \* the call ended with an exception
    pm_wrote,             \* the store the call wrote, "none" if none
    \* KettleDaemon (kettle_daemon.py), which shares the channel, the clock,
    \* the two files and the names last_slack_check and last_processed_ts:
    last_message_time,    \* KettleDaemon.last_message_time
    processing_pending,   \* KettleDaemon.processing_pending
    dpc,                  \* the Tkinter loop's position
    d_latest_ts,          \* process_slack_messages' local latest_ts
    polled_at             \* history: the time of the last periodic_check

vars == <<now, slack, store, wmFile, batchFile, last_slack_check,
          last_processed_ts, last_new_message_ts, pipeline_running, ppc,
          p_combined, rpc, snapshot_latest_ts, current_msgs, outcome, raised,
          raw_response, released_at, saved, seen, claimed, processed, failed_ts, owed,
          messages, existing, embeddings_file, collection, mongo_up, manager,
          pm_pc, pm_module, pm_folder, pm_messages, pm_result, pm_raised,
          pm_wrote, last_message_time, processing_pending, dpc, d_latest_ts,
          polled_at>>

pollVars == <<last_slack_check, last_new_message_ts, ppc, p_combined>>
runVars == <<rpc, snapshot_latest_ts, current_msgs, outcome, raised, raw_response,
             released_at>>
histVars == <<saved, seen, claimed, processed, failed_ts, owed>>
\* The variables the scheduler's actions leave alone.
projVars == <<embeddings_file, collection, mongo_up, manager, pm_pc, pm_module,
              pm_folder, pm_messages, pm_result, pm_raised, pm_wrote>>
daemonVars == <<last_message_time, processing_pending, dpc, d_latest_ts, polled_at>>
auxVars == <<messages, existing, projVars, daemonVars>>

\* ---------------------------------------------------------- helpers
Ts(msgs) == {msgs[i].ts : i \in 1..Len(msgs)}

MaxOf(S) == CHOOSE x \in S : \A y \in S : y <= x

\* max(float(m.get("ts", 0)) for m in messages)
LatestTs(msgs) == MaxOf(Ts(msgs))

\* ------------------------------------------------ slack_fetch.py
\* client.conversations_history(channel, limit): the newest `limit` messages.
Window(history) ==
    SubSeq(history, 1, IF Len(history) < MESSAGE_LIMIT THEN Len(history) ELSE MESSAGE_LIMIT)

\* filtered / new_batch: the messages not sent by the bot, reduced to
\* text, user and ts.
NewBatch(fetched) ==
    LET filtered == SelectSeq(fetched, LAMBDA m : m.user # BOT_USER_ID)
    IN  [i \in 1..Len(filtered) |->
            [text |-> filtered[i].text, user |-> filtered[i].user, ts |-> filtered[i].ts]]

\* A variant of DictPut without the key lookup: every put adds an entry.
DictPut_AlwaysAppend(d, m) == Append(d, m)

\* A variant of DictPut in which a known key keeps its old value.
DictPut_KeepFirst(d, m) ==
    IF \E i \in 1..Len(d) : d[i].ts = m.ts THEN d ELSE Append(d, m)

\* combined_map[ts] = m on an insertion-ordered dict: a known key keeps its
\* place and takes the new value, a new key goes to the end.
DictPut(d, m) ==
    IF \E i \in 1..Len(d) : d[i].ts = m.ts
    THEN [i \in 1..Len(d) |-> IF d[i].ts = m.ts THEN m ELSE d[i]]
    ELSE Append(d, m)

RECURSIVE DictPutAll(_, _)
DictPutAll(d, msgs) ==
    IF msgs = <<>> THEN d ELSE DictPutAll(DictPut(d, Head(msgs)), Tail(msgs))

\* A ts of 0 stands for a missing or empty "ts".
HasTs(m) == m.ts # 0

\* A variant of CombinedMap that concatenates the two lists.
CombinedMap_Concat(old, new_batch) ==
    SelectSeq(old, HasTs) \o SelectSeq(new_batch, HasTs)

CombinedMap(old, new_batch) ==
    DictPutAll(DictPutAll(<<>>, SelectSeq(old, HasTs)), SelectSeq(new_batch, HasTs))

\* combined.sort(key=float(ts), reverse=True): stable, newest first.
RECURSIVE InsertDesc(_, _)
InsertDesc(sorted, m) ==
    IF sorted = <<>> THEN <<m>>
    ELSE IF Head(sorted).ts >= m.ts
         THEN <<Head(sorted)>> \o InsertDesc(Tail(sorted), m)
         ELSE <<m>> \o sorted

\* A variant of SortDesc that leaves the list in the dict's order.
SortDesc_None(msgs) == msgs

RECURSIVE SortDesc(_)
SortDesc(msgs) ==
    IF msgs = <<>> THEN <<>>
    ELSE InsertDesc(SortDesc(SubSeq(msgs, 1, Len(msgs) - 1)), msgs[Len(msgs)])

\* save_messages up to the list it writes.
Combined(old, fetched) == SortDesc(CombinedMap(old, NewBatch(fetched)))

\* ------------------------------------------------------ environment
Init ==
    /\ now = TimeStep
    /\ slack = <<>>
    /\ store = <<>>
    /\ wmFile = 0
    /\ batchFile = <<"absent">>
    /\ last_slack_check = 0
    /\ last_processed_ts = 0
    /\ last_new_message_ts = 0
    /\ pipeline_running = FALSE
    /\ ppc = "idle"
    /\ p_combined = <<>>
    /\ rpc = [r \in Runners |-> "none"]
    /\ snapshot_latest_ts = [r \in Runners |-> 0]
    /\ current_msgs = [r \in Runners |-> <<>>]
    /\ outcome = [r \in Runners |-> "none"]
    /\ raised = [r \in Runners |-> "none"]
    /\ raw_response = [r \in Runners |-> "none"]
    /\ released_at = [r \in Runners |-> 0]
    /\ saved = {}
    /\ seen = {}
    /\ claimed = {}
    /\ processed = {}
    /\ failed_ts = {}
    /\ owed = [r \in Runners |-> {}]
    /\ messages = <<>>
    /\ existing = <<>>
    /\ embeddings_file = <<"absent">>
    /\ collection = <<>>
    /\ mongo_up = TRUE
    /\ manager = FALSE
    /\ pm_pc = "idle"
    /\ pm_module = "none"
    /\ pm_folder = <<>>
    /\ pm_messages = <<>>
    /\ pm_result = [folder |-> <<>>, score |-> 0]
    /\ pm_raised = FALSE
    /\ pm_wrote = "none"
    /\ last_message_time = 0
    /\ processing_pending = FALSE
    /\ dpc = "due"
    /\ d_latest_ts = 0
    /\ polled_at = 0

\* The clock advances between two iterations of the poll loop (run: while
\* self.running: check_slack_messages(); time.sleep(1.0)): a poll that is due
\* is made before the clock moves on.  A worker's snapshot read and its
\* write of the batch and clearing of the store are consecutive statements;
\* the clock does not move between them.
Tick ==
    /\ ppc = "idle"
    /\ \A r \in Runners : rpc[r] # "snap"
    /\ \A r \in Runners : rpc[r] = "cooldown" => now - released_at[r] < cooldown_after_run
    /\ now - last_slack_check < poll_interval
    /\ now + TimeStep <= MaxTime
    /\ now' = now + TimeStep
    /\ UNCHANGED <<auxVars, slack, store, wmFile, batchFile, last_processed_ts,
                   pipeline_running, pollVars, runVars, histVars>>

\* Somebody (a user or the bot) posts a message to the channel.
NewMessage ==
    /\ Len(slack) < MaxMsgs
    /\ now \notin Ts(slack)
    /\ \E u \in Users, t \in Texts :
          slack' = <<[text |-> t, user |-> u, ts |-> now]>> \o slack
    /\ UNCHANGED <<auxVars, now, store, wmFile, batchFile, last_processed_ts,
                   pipeline_running, pollVars, runVars, histVars>>

\* ------------------------------------- KettleMonitor: the poll loop
\* fetch_recent_messages: the newest MESSAGE_LIMIT messages, [] on a
\* SlackApiError.
FetchRecentMessages(api_ok) == IF api_ok THEN Window(slack) ELSE <<>>

\* check_slack_messages, up to save_messages' read of json/messages.json:
\* the throttle, the fetch (fetch_recent_messages returns [] on a
\* SlackApiError) and the merge with the stored list.
PollFetch ==
    /\ ppc = "idle"
    /\ now - last_slack_check >= poll_interval
    /\ \E api_ok \in BOOLEAN :
          p_combined' = Combined(store, FetchRecentMessages(api_ok))
    /\ ppc' = "saving"
    /\ UNCHANGED <<auxVars, now, slack, store, wmFile, batchFile, last_slack_check,
                   last_processed_ts, last_new_message_ts, pipeline_running,
                   runVars, histVars>>

\* The value save_messages writes to json/last_processed_ts.txt.
SavedWatermark(combined, old) ==
    IF combined # <<>> THEN combined[1].ts ELSE old

\* save_messages' writes of json/messages.json and of
\* json/last_processed_ts.txt, and the return to check_slack_messages.
PollSave ==
    /\ ppc = "saving"
    /\ store' = p_combined
    /\ saved' = saved \cup Ts(p_combined)
    /\ wmFile' = SavedWatermark(p_combined, wmFile)
    /\ last_slack_check' = now
    /\ ppc' = "inspect"
    /\ UNCHANGED <<auxVars, now, slack, batchFile, last_processed_ts,
                   last_new_message_ts, pipeline_running, p_combined,
                   runVars, seen, claimed, processed, failed_ts, owed>>

\* The lowest worker not yet launched.
FreeRunner == CHOOSE r \in Runners : rpc[r] = "none" /\ \A q \in Runners : rpc[q] = "none" => r <= q

\* silence_met in _maybe_start_pipeline.
SilenceMet(t, last_new) == (t - last_new) >= silence_seconds

\* newer_than_processed in _maybe_start_pipeline.
NewerThanProcessed(latest_ts) == latest_ts > last_processed_ts

\* The three early returns of _maybe_start_pipeline, negated.
ShouldStart(latest_ts, last_new) ==
    /\ SilenceMet(now, last_new)
    /\ NewerThanProcessed(latest_ts)
    /\ ~pipeline_running

\* A variant of ObservedTs in which only the first message seen sets
\* last_new_message_ts: later messages do not reset the timer.
ObservedTs_NoReset(latest_ts) ==
    IF last_new_message_ts = 0 THEN latest_ts ELSE last_new_message_ts

\* last_new_message_ts after check_slack_messages has seen latest_ts.
ObservedTs(latest_ts) ==
    IF latest_ts > last_new_message_ts THEN latest_ts ELSE last_new_message_ts

\* check_slack_messages from _read_messages on, with _maybe_start_pipeline
\* up to threading.Thread(...).start().
PollInspect ==
    /\ ppc = "inspect"
    /\ ppc' = "idle"
    /\ seen' = seen \cup Ts(store)
    /\ IF store = <<>>
       THEN UNCHANGED <<last_new_message_ts, runVars, owed>>
       ELSE LET latest_ts == LatestTs(store)
            IN  /\ last_new_message_ts' = ObservedTs(latest_ts)
                /\ IF ShouldStart(latest_ts, ObservedTs(latest_ts))
                   THEN /\ \E r \in Runners : rpc[r] = "none"
                        /\ rpc' = [rpc EXCEPT ![FreeRunner] = "start"]
                        /\ snapshot_latest_ts' =
                              [snapshot_latest_ts EXCEPT ![FreeRunner] = latest_ts]
                        /\ owed' = [owed EXCEPT ![FreeRunner] = failed_ts]
                        /\ UNCHANGED <<current_msgs, outcome, raised, raw_response,
                                         released_at>>
                   ELSE UNCHANGED <<runVars, owed>>
    /\ UNCHANGED <<auxVars, now, slack, store, wmFile, batchFile, last_slack_check,
                   last_processed_ts, pipeline_running, p_combined, saved,
                   claimed, processed, failed_ts>>

\* --------------------------------- KettleMonitor: _run_pipeline
\* pipeline_running = True and the snapshot's read of json/messages.json.
RunBegin(r) ==
    /\ rpc[r] = "start"
    /\ pipeline_running' = TRUE
    /\ current_msgs' = [current_msgs EXCEPT ![r] = store]
    /\ rpc' = [rpc EXCEPT ![r] = "snap"]
    /\ claimed' = claimed \cup Ts(store)
    /\ failed_ts' = failed_ts \ Ts(store)
    /\ UNCHANGED <<auxVars, now, slack, store, wmFile, batchFile, last_processed_ts,
                   pollVars, snapshot_latest_ts, outcome, raised, raw_response,
                   released_at,
                   saved, seen, processed, owed>>

\* if current_msgs: write json/batch.json, clear json/messages.json.
RunSwap(r) ==
    /\ rpc[r] = "snap"
    /\ IF current_msgs[r] # <<>>
       THEN /\ batchFile' = <<"file", current_msgs[r]>>
            /\ store' = <<>>
       ELSE UNCHANGED <<batchFile, store>>
    /\ rpc' = [rpc EXCEPT ![r] = "steps"]
    /\ UNCHANGED <<auxVars, now, slack, wmFile, last_processed_ts, pipeline_running,
                   pollVars, snapshot_latest_ts, current_msgs, outcome, raised,
                   raw_response,
                   released_at, histVars>>

\* The finally block: remove json/batch.json if this run wrote it, release
\* pipeline_running, then sleep.
Finally(r, how, step) ==
    /\ batchFile' = IF current_msgs[r] # <<>> THEN <<"absent">> ELSE batchFile
    /\ pipeline_running' = FALSE
    /\ rpc' = [rpc EXCEPT ![r] = "cooldown"]
    /\ outcome' = [outcome EXCEPT ![r] = how]
    /\ raised' = [raised EXCEPT ![r] = step]
    /\ released_at' = [released_at EXCEPT ![r] = now]
    /\ processed' = IF how = "ok" THEN processed \cup Ts(current_msgs[r]) ELSE processed
    /\ failed_ts' = IF how = "ok" THEN failed_ts ELSE failed_ts \cup Ts(current_msgs[r])
    /\ UNCHANGED <<auxVars, now, slack, store, pollVars, snapshot_latest_ts, current_msgs,
                   saved, seen, claimed, owed>>

\* A variant of _update_last_processed_ts that records the time of the update
\* instead of ts_val.
UpdateLastProcessedTs_Clock(ts_val) ==
    /\ last_processed_ts' = now
    /\ wmFile' = now

\* _update_last_processed_ts(ts_val)
UpdateLastProcessedTs(ts_val) ==
    /\ last_processed_ts' = ts_val
    /\ wmFile' = ts_val

\* What call_claude may return to extraction: text that json.loads accepts,
\* or text that it rejects.
Responses == {"json", "garbage"}

\* extract_valid_tasks_json: the tasks parsed from the response, [] when
\* json.loads raises JSONDecodeError.
extract_valid_tasks_json(response) ==
    IF response = "garbage" THEN <<>> ELSE <<"task">>

\* extract_tasks.main() up to the response: it returns at once when
\* fetch_messages found no message, and has a response to parse otherwise.
CallClaude(r) ==
    IF store = <<>>
    THEN raw_response' = [raw_response EXCEPT ![r] = "none"]
    ELSE \E response \in Responses :
            raw_response' = [raw_response EXCEPT ![r] = response]

\* extract_tasks.main() returns; an exception of the dependency analysis or
\* of project_matcher.main() is caught by its own try and the run goes on to
\* _update_last_processed_ts(snapshot_latest_ts).
RunSucceed(r) ==
    /\ rpc[r] = "steps"
    /\ CallClaude(r)
    /\ UpdateLastProcessedTs(snapshot_latest_ts[r])
    /\ \E step \in {"none", "match"} : Finally(r, "ok", step)

\* A variant of RunFail whose way out skips the release of pipeline_running.
RunFail_Holding(r) ==
    /\ rpc[r] = "steps"
    /\ batchFile' = IF current_msgs[r] # <<>> THEN <<"absent">> ELSE batchFile
    /\ rpc' = [rpc EXCEPT ![r] = "cooldown"]
    /\ outcome' = [outcome EXCEPT ![r] = "failed"]
    /\ raised' = [raised EXCEPT ![r] = "extract"]
    /\ released_at' = [released_at EXCEPT ![r] = now]
    /\ failed_ts' = failed_ts \cup Ts(current_msgs[r])
    /\ UNCHANGED <<auxVars, now, slack, store, wmFile, last_processed_ts,
                   pipeline_running, pollVars, snapshot_latest_ts, current_msgs,
                   raw_response, saved, seen, claimed, processed, owed>>

\* A variant of RunFail in which the watermark is updated on the way out of
\* a failed run as well.
RunFail_Advancing(r) ==
    /\ rpc[r] = "steps"
    /\ UpdateLastProcessedTs(snapshot_latest_ts[r])
    /\ UNCHANGED raw_response
    /\ Finally(r, "failed", "extract")

\* extract_tasks.main() raises: the outer except, then the finally block.
RunFail(r) ==
    /\ rpc[r] = "steps"
    /\ UNCHANGED <<last_processed_ts, wmFile, raw_response>>
    /\ Finally(r, "failed", "extract")

\* time.sleep(cooldown_after_run) returns and the thread ends.
RunExit(r) ==
    /\ rpc[r] = "cooldown"
    /\ now - released_at[r] >= cooldown_after_run
    /\ rpc' = [rpc EXCEPT ![r] = "none"]
    /\ snapshot_latest_ts' = [snapshot_latest_ts EXCEPT ![r] = 0]
    /\ current_msgs' = [current_msgs EXCEPT ![r] = <<>>]
    /\ outcome' = [outcome EXCEPT ![r] = "none"]
    /\ raised' = [raised EXCEPT ![r] = "none"]
    /\ raw_response' = [raw_response EXCEPT ![r] = "none"]
    /\ released_at' = [released_at EXCEPT ![r] = 0]
    /\ owed' = [owed EXCEPT ![r] = {}]
    /\ UNCHANGED <<auxVars, now, slack, store, wmFile, batchFile, last_processed_ts,
                   pipeline_running, pollVars, saved, seen, claimed, processed,
                   failed_ts>>

Next ==
    \/ Tick
    \/ NewMessage
    \/ PollFetch
    \/ PollSave
    \/ PollInspect
    \/ \E r \in Runners : RunBegin(r)
    \/ \E r \in Runners : RunSwap(r)
    \/ \E r \in Runners : RunSucceed(r)
    \/ \E r \in Runners : RunFail(r)
    \/ \E r \in Runners : RunExit(r)

Spec == Init /\ [][Next]_vars

\* ------------------------------- slack_fetch.main, called on its own
\* The message store under a sequence of save_messages calls, in a channel
\* whose messages are posted with increasing ts and may be edited (same ts
\* and user, another text), with the runner's clearing of the store between
\* calls.
Contents == Texts \cup {"edited"}

\* The scheduler's variables, left alone by the actions below.
schedVars == <<batchFile, last_slack_check, last_processed_ts,
               last_new_message_ts, pipeline_running, runVars, histVars, projVars,
               daemonVars>>

\* A message is posted; its ts is the clock's value, which then moves on.
ChannelPost ==
    /\ Len(slack) < MaxMsgs
    /\ \E u \in Users :
          slack' = <<[text |-> "t", user |-> u, ts |-> now]>> \o slack
    /\ now' = now + 1
    /\ UNCHANGED <<store, wmFile, ppc, p_combined, messages, existing, schedVars>>

\* A message of the channel is edited: conversations_history returns it
\* with the same ts and user and the new text.
ChannelEdit ==
    /\ \E i \in 1..Len(slack), t \in Contents :
          /\ slack[i].text # t
          /\ slack' = [slack EXCEPT ![i].text = t]
    /\ UNCHANGED <<now, store, wmFile, ppc, p_combined, messages, existing, schedVars>>

\* main(): fetch_recent_messages, then save_messages up to `combined`.
SaveMessagesMerge ==
    /\ ppc = "idle"
    /\ \E api_ok \in BOOLEAN :
          /\ messages' = FetchRecentMessages(api_ok)
          /\ p_combined' = Combined(store, FetchRecentMessages(api_ok))
    /\ existing' = store
    /\ ppc' = "saving"
    /\ UNCHANGED <<now, slack, store, wmFile, schedVars>>

\* save_messages' writes of json/messages.json and json/last_processed_ts.txt.
SaveMessagesWrite ==
    /\ ppc = "saving"
    /\ store' = p_combined
    /\ wmFile' = SavedWatermark(p_combined, wmFile)
    /\ ppc' = "idle"
    /\ UNCHANGED <<now, slack, p_combined, messages, existing, schedVars>>

\* The runner's json.dump({"messages": []}) between two save_messages calls.
StoreCleared ==
    /\ ppc = "idle"
    /\ store # <<>>
    /\ store' = <<>>
    /\ UNCHANGED <<now, slack, wmFile, ppc, p_combined, messages, existing, schedVars>>

MergeNext ==
    \/ ChannelPost
    \/ ChannelEdit
    \/ SaveMessagesMerge
    \/ SaveMessagesWrite
    \/ StoreCleared

SpecMerge == Init /\ [][MergeNext]_vars

\* ------------------------------------------------------------ claims
\* A worker between its first statement and its release of pipeline_running.
Executing(r) == rpc[r] \in {"snap", "steps"}

\* A worker launched and not yet past its release of pipeline_running.
InFlight(r) == rpc[r] \in {"start", "snap", "steps"}

\* The step in which check_slack_messages launches worker r.
Launched(r) == rpc[r] = "none" /\ rpc'[r] = "start"

\* The step in which worker r takes its snapshot.
Snapshotted(r) == rpc[r] = "start" /\ rpc'[r] = "snap"

\* The step in which worker r's run ends.
Ended(r) == rpc[r] = "steps" /\ rpc'[r] = "cooldown"

\* C1: at most one _run_pipeline invocation executes at any time.
C1_SingleFlight == Cardinality({r \in Runners : Executing(r)}) <= 1

\* C2: once a run has ended and none is in flight, every message that
\* save_messages has written is in the pending store or was taken into a batch.
C2_NoMessageLoss ==
    ((\E r \in Runners : rpc[r] = "cooldown") /\ (\A r \in Runners : ~InFlight(r)))
        => saved \subseteq (Ts(store) \cup claimed)

\* C3: no message of the batch of a successfully completed run is in the
\* batch of a later run.
C3_NoReprocessing ==
    [][\A r \in Runners : Snapshotted(r) => Ts(current_msgs'[r]) \cap processed = {}]_vars

\* C4: a run is started only for a message newer than the watermark, and never
\* for a newest message for which a run is already in flight.
C4_OneRunPerBatch ==
    [][\A r \in Runners : Launched(r) =>
          /\ snapshot_latest_ts'[r] > last_processed_ts
          /\ \A q \in Runners : InFlight(q) => snapshot_latest_ts[q] # snapshot_latest_ts'[r]]_vars

\* C5: neither last_processed_ts nor the value in json/last_processed_ts.txt
\* ever decreases.
C5_WatermarkMonotone ==
    [][last_processed_ts' >= last_processed_ts /\ wmFile' >= wmFile]_vars

\* C6: the stored watermark changes only in the step that ends a successful
\* run; the poll loop's fetch, save and inspection leave it unchanged.
C6_WatermarkOnlyByRunner ==
    [][wmFile' # wmFile => \E r \in Runners : Ended(r) /\ outcome'[r] = "ok"]_vars

C8_RetryContainsFailedBatch ==
    [][\A r \in Runners : Snapshotted(r) => owed[r] \subseteq Ts(current_msgs'[r])]_vars

\* C9: no run is launched less than silence_seconds after the ts of a message
\* the poll loop has observed.
C9_Debounce ==
    [][\A r \in Runners : Launched(r) => \A t \in seen' : now - t >= silence_seconds]_vars

\* C9 witness: a run has been launched after a second message, observed less
\* than silence_seconds after the first, had reset the timer.
C9_Witness ==
    \E r \in Runners :
        /\ rpc[r] = "start"
        /\ \E a, b \in seen : a < b /\ b - a < silence_seconds /\ b = snapshot_latest_ts[r]
        /\ now - snapshot_latest_ts[r] >= silence_seconds
        /\ now - snapshot_latest_ts[r] < silence_seconds + poll_interval + TimeStep

\* The poll loop's inspection step.
Inspected == ppc = "inspect" /\ ppc' = "idle"

\* C10: at a poll tick at which a message newer than the watermark
\* has been observed, the silence has elapsed and no run is in flight, a run
\* is launched.
C10_RunOnObservedSilence ==
    [][(/\ Inspected
        /\ last_new_message_ts' > last_processed_ts
        /\ now - last_new_message_ts' >= silence_seconds
        /\ \A r \in Runners : rpc[r] = "none")
          => \E r \in Runners : Launched(r)]_vars

\* ----------------------------------------- claims on save_messages
\* The step in which save_messages writes json/messages.json.
SaveWritten == ppc = "saving" /\ ppc' = "idle"

\* The stored list is what the last save_messages call wrote.
JustSaved == ppc = "idle" /\ store = Combined(existing, messages)

\* The number of messages of msgs with ts t.
CountTs(msgs, t) == Cardinality({i \in 1..Len(msgs) : msgs[i].ts = t})

\* C11 as stated: saving the fetched list a second time would leave the
\* stored list as the first save wrote it, and the stored list has exactly
\* one message for every ts of the fetched list.
C11_IdempotentEveryFetchedId ==
    [][SaveWritten =>
          /\ Combined(store', messages) = store'
          /\ \A t \in Ts(messages) : CountTs(store', t) = 1]_vars

\* C11 as amended: saving the fetched list a second time would leave the
\* stored list as the first save wrote it, and the stored list has exactly
\* one message for every ts of a fetched message not sent by the bot.
C11_IdempotentMerge ==
    [][SaveWritten =>
          /\ Combined(store', messages) = store'
          /\ \A t \in Ts(NewBatch(messages)) : CountTs(store', t) = 1]_vars

\* C11 witness: a save whose fetched list holds a user's message that was
\* already stored and one that was not.
C11_Witness ==
    /\ JustSaved
    /\ Ts(NewBatch(messages)) \cap Ts(existing) # {}
    /\ Ts(NewBatch(messages)) \ Ts(existing) # {}

\* C12: no two messages of json/messages.json have the same ts.
C12_UniqueIds ==
    \A i, j \in 1..Len(store) : store[i].ts = store[j].ts => i = j

\* C12 witness: a save of a fetch that overlaps the stored list has left
\* two or more messages.
C12_Witness ==
    /\ JustSaved
    /\ Len(store) >= 2
    /\ Len(existing) >= 1
    /\ Ts(existing) \subseteq Ts(messages)

\* C13: json/messages.json is in descending order of ts, and its first
\* element has the maximum ts.
C13_DescendingOrder ==
    /\ \A i \in 1..(Len(store) - 1) : store[i].ts >= store[i + 1].ts
    /\ store # <<>> => store[1].ts = LatestTs(store)

\* C13 witness: a save that added, to a stored list that was not empty, a
\* message newer than all of it.
C13_Witness ==
    /\ JustSaved
    /\ existing # <<>>
    /\ \E t \in Ts(store) \ Ts(existing) : t > LatestTs(existing)

\* C14: when save_messages is given a user's message whose ts is stored with
\* another content, the stored message of that ts becomes the given one; the
\* stored messages whose ts is not among the given ones stay as they were.
C14_LastWriteWins ==
    [][SaveWritten =>
          LET new_batch == NewBatch(messages)
          IN  /\ \A i \in 1..Len(new_batch) :
                    (\E j \in 1..Len(store) :
                        store[j].ts = new_batch[i].ts /\ store[j] # new_batch[i])
                    => /\ \E k \in 1..Len(store') : store'[k] = new_batch[i]
                       /\ CountTs(store', new_batch[i].ts) = 1
              /\ \A j \in 1..Len(store) :
                    store[j].ts \notin Ts(new_batch)
                    => \E k \in 1..Len(store') : store'[k] = store[j]]_vars

\* C14 witness: a save has replaced the text of a stored message and kept a
\* stored message that was not fetched.
C14_Witness ==
    /\ JustSaved
    /\ \E i \in 1..Len(messages), j \in 1..Len(existing) :
          /\ messages[i].ts = existing[j].ts
          /\ messages[i].text # existing[j].text
          /\ \E k \in 1..Len(store) : store[k].ts = messages[i].ts /\ store[k].text = messages[i].text
    /\ \E j \in 1..Len(existing) :
          existing[j].ts \notin Ts(messages) /\ \E k \in 1..Len(store) : store[k] = existing[j]

\* ------------------------------------------------ project records
\* project_matcher.py keeps the records in json/project_embeddings.json;
\* tools/project_matcher.py keeps them in MongoDB and falls back to the file.
\* A message list is a list of message texts; a text is one of Topics.
MaxTopic == 2
Topics == 0..MaxTopic
MessageLists == {<<t>> : t \in Topics}

\* A folder is its path's components; a trailing "/" leaves an empty one.
Folders == {<<"Work", "todo">>, <<"Old", "todo">>, <<"Work", "chat", "">>}

Modules == {"project_matcher", "tools.project_matcher"}

\* Python's None, as a folder.
None == <<>>

\* Similarities are in hundredths.
SIMILARITY_THRESHOLD == 20

\* find_similar_projects' `limit` argument.
FindLimit == 10

\* os.path.basename(os.path.normpath(folder))
Basename(folder) ==
    LET parts == SelectSeq(folder, LAMBDA c : c # "")
    IN  parts[Len(parts)]

RECURSIVE SumSeq(_)
SumSeq(q) == IF q = <<>> THEN 0 ELSE Head(q) + SumSeq(Tail(q))

\* compute_embedding: the sentence-transformer model applied to the joined
\* texts.  The model is external; an embedding is represented by a direction
\* 0..MaxTopic, that of a list by the sum of its texts' directions.
compute_embedding(msgs) == SumSeq(msgs) % (MaxTopic + 1)

\* cosine_similarity, in hundredths, as a function of the distance between
\* two directions: 1.0, 0.20 (the threshold), 0.19, -1.0.
cosine_similarity(a, b) ==
    LET d == IF a > b THEN a - b ELSE b - a
    IN  CASE d = 0 -> 100
          [] d = 1 -> 20
          [] d = 2 -> 19
          [] OTHER -> 0 - 100

\* A variant of RecordMessages that appends to the stored list.
RecordMessages_Append(old, msgs) == old \o msgs

\* The "messages" of the record written for `msgs`, where `old` is the list
\* stored under the same name (empty if none).
RecordMessages(old, msgs) == msgs

\* The messages stored under `name` in a list of [name, messages, ...] records.
StoredMessages(recs, name) ==
    IF \E i \in 1..Len(recs) : recs[i].name = name
    THEN recs[CHOOSE i \in 1..Len(recs) : recs[i].name = name].messages
    ELSE <<>>

\* data[folder_name] = {...} on the dict loaded from the file: a known name
\* keeps its place and takes the new value, a new name goes to the end.
JsonPut(data, folder, msgs) ==
    LET folder_name == Basename(folder)
        rec == [name |-> folder_name,
                embedding |-> compute_embedding(msgs),
                messages |-> RecordMessages(StoredMessages(data, folder_name), msgs),
                folder |-> folder]
    IN  IF \E i \in 1..Len(data) : data[i].name = folder_name
        THEN [i \in 1..Len(data) |-> IF data[i].name = folder_name THEN rec ELSE data[i]]
        ELSE Append(data, rec)

\* collection.replace_one({"project_name": project_name}, document, upsert=True)
ReplaceOne(docs, folder, msgs) ==
    LET project_name == Basename(folder)
        document == [project_name |-> project_name,
                     folder_path |-> folder,
                     messages |-> msgs,
                     embedding |-> compute_embedding(msgs)]
    IN  IF \E i \in 1..Len(docs) : docs[i].project_name = project_name
        THEN [i \in 1..Len(docs) |->
                 IF docs[i].project_name = project_name THEN document ELSE docs[i]]
        ELSE Append(docs, document)

\* load_all_project_embeddings of project_matcher.py, for a readable file.
LoadAllJson(file) == IF file[1] = "file" THEN file[2] ELSE <<>>

\* tools' load_all_project_embeddings: the documents in the old format.
LoadAllMongo(docs) ==
    [i \in 1..Len(docs) |->
        [name |-> docs[i].project_name,
         embedding |-> docs[i].embedding,
         messages |-> docs[i].messages,
         folder |-> docs[i].folder_path]]

\* A variant of Better in which an equal score replaces the best so far.
Better_OrEqual(score, best_score) == score >= best_score

\* if score > best_score
Better(score, best_score) == score > best_score

\* The loop over all_projects.items(), from best_project = None and
\* best_score = -1.
RECURSIVE ScanBest(_, _, _)
ScanBest(recs, new_emb, best) ==
    IF recs = <<>> THEN best
    ELSE LET score == cosine_similarity(new_emb, Head(recs).embedding)
         IN  ScanBest(Tail(recs), new_emb,
                      IF Better(score, best.score)
                      THEN [folder |-> Head(recs).folder, score |-> score]
                      ELSE best)

\* A variant of MeetsThreshold that rejects a score equal to the threshold.
MeetsThreshold_Strict(best_score) == best_score > SIMILARITY_THRESHOLD

\* if best_score >= SIMILARITY_THRESHOLD
MeetsThreshold(best_score) == best_score >= SIMILARITY_THRESHOLD

\* find_closest_project of project_matcher.py (and tools'
\* _find_closest_project_json_fallback) on the loaded records.
ClosestOf(all_projects, msgs) ==
    IF all_projects = <<>> THEN [folder |-> None, score |-> 0]
    ELSE LET best == ScanBest(all_projects, compute_embedding(msgs),
                              [folder |-> None, score |-> 0 - 100])
         IN  IF MeetsThreshold(best.score) THEN best
             ELSE [folder |-> None, score |-> best.score]

\* similarities.sort(key=similarity, reverse=True): stable.
RECURSIVE InsertBySimilarity(_, _)
InsertBySimilarity(sorted, x) ==
    IF sorted = <<>> THEN <<x>>
    ELSE IF Head(sorted).similarity >= x.similarity
         THEN <<Head(sorted)>> \o InsertBySimilarity(Tail(sorted), x)
         ELSE <<x>> \o sorted

RECURSIVE SortBySimilarity(_)
SortBySimilarity(xs) ==
    IF xs = <<>> THEN <<>>
    ELSE InsertBySimilarity(SortBySimilarity(SubSeq(xs, 1, Len(xs) - 1)), xs[Len(xs)])

\* ProjectEmbeddingManager.find_similar_projects on the documents found.
find_similar_projects(projects, query_embedding) ==
    LET scored == [i \in 1..Len(projects) |->
                      [similarity |-> cosine_similarity(query_embedding, projects[i].embedding),
                       project_name |-> projects[i].project_name,
                       folder_path |-> projects[i].folder_path]]
        similarities == SelectSeq(scored, LAMBDA x : x.similarity >= SIMILARITY_THRESHOLD)
        ordered == SortBySimilarity(similarities)
    IN  SubSeq(ordered, 1, IF Len(ordered) < FindLimit THEN Len(ordered) ELSE FindLimit)

\* tools' find_closest_project on the list find_similar_projects returned.
BestMatch(similar_projects) ==
    IF similar_projects # <<>>
    THEN [folder |-> similar_projects[1].folder_path, score |-> similar_projects[1].similarity]
    ELSE [folder |-> None, score |-> 0]

\* The variables of the scheduler and of the message store.
coreVars == <<now, slack, store, wmFile, batchFile, last_processed_ts,
              pipeline_running, pollVars, runVars, histVars, messages, existing,
              daemonVars>>

\* get_embedding_manager() returns: the manager exists or can be created.
ManagerAvailable == manager \/ mongo_up

\* The MongoDB server goes down or comes back.
MongoFlips ==
    /\ pm_pc = "idle"
    /\ mongo_up' = ~mongo_up
    /\ UNCHANGED <<coreVars, embeddings_file, collection, manager, pm_pc, pm_module,
                   pm_folder, pm_messages, pm_result, pm_raised, pm_wrote>>

\* json/project_embeddings.json is left with content json.load rejects.
FileCorrupted ==
    /\ pm_pc = "idle"
    /\ embeddings_file[1] = "file"
    /\ embeddings_file' = <<"corrupt">>
    /\ UNCHANGED <<coreVars, collection, mongo_up, manager, pm_pc, pm_module,
                   pm_folder, pm_messages, pm_result, pm_raised, pm_wrote>>

\* A caller enters find_closest_project(messages).
CallFind ==
    /\ pm_pc = "idle"
    /\ pm_pc' = "find"
    /\ \E m \in Modules, msgs \in MessageLists :
          pm_module' = m /\ pm_messages' = msgs
    /\ pm_folder' = None
    /\ pm_result' = [folder |-> None, score |-> 0]
    /\ pm_raised' = FALSE
    /\ pm_wrote' = "none"
    /\ UNCHANGED <<coreVars, embeddings_file, collection, mongo_up, manager>>

\* A caller enters save_project_embedding(folder, messages).
CallSave ==
    /\ pm_pc = "idle"
    /\ pm_pc' = "save"
    /\ \E m \in Modules, msgs \in MessageLists, folder \in Folders :
          pm_module' = m /\ pm_messages' = msgs /\ pm_folder' = folder
    /\ pm_result' = [folder |-> None, score |-> 0]
    /\ pm_raised' = FALSE
    /\ pm_wrote' = "none"
    /\ UNCHANGED <<coreVars, embeddings_file, collection, mongo_up, manager>>

\* project_matcher.find_closest_project returns or raises: json.load raises
\* on a file it cannot parse, and nothing here catches it.
JsonFindReturn ==
    /\ pm_pc = "find"
    /\ pm_module = "project_matcher"
    /\ pm_pc' = "idle"
    /\ IF embeddings_file[1] = "corrupt"
       THEN pm_raised' = TRUE /\ UNCHANGED pm_result
       ELSE /\ pm_raised' = FALSE
            /\ pm_result' = ClosestOf(LoadAllJson(embeddings_file), pm_messages)
    /\ UNCHANGED <<coreVars, embeddings_file, collection, mongo_up, manager,
                   pm_module, pm_folder, pm_messages, pm_wrote>>

\* tools.project_matcher.find_closest_project returns.  With a manager, the
\* search is find_similar_projects', which returns [] when the query fails;
\* without one, get_embedding_manager raises and the JSON fallback runs, in
\* which every exception is caught.
ToolsFindReturn ==
    /\ pm_pc = "find"
    /\ pm_module = "tools.project_matcher"
    /\ pm_pc' = "idle"
    /\ pm_raised' = FALSE
    /\ IF ManagerAvailable
       THEN /\ manager' = TRUE
            /\ pm_result' =
                  IF mongo_up
                  THEN BestMatch(find_similar_projects(collection, compute_embedding(pm_messages)))
                  ELSE [folder |-> None, score |-> 0]
       ELSE /\ UNCHANGED manager
            /\ pm_result' =
                  IF embeddings_file[1] = "corrupt"
                  THEN [folder |-> None, score |-> 0]
                  ELSE ClosestOf(LoadAllJson(embeddings_file), pm_messages)
    /\ UNCHANGED <<coreVars, embeddings_file, collection, mongo_up,
                   pm_module, pm_folder, pm_messages, pm_wrote>>

\* project_matcher.save_project_embedding returns or raises.
JsonSaveReturn ==
    /\ pm_pc = "save"
    /\ pm_module = "project_matcher"
    /\ pm_pc' = "idle"
    /\ IF embeddings_file[1] = "corrupt"
       THEN pm_raised' = TRUE /\ UNCHANGED <<embeddings_file, pm_wrote>>
       ELSE /\ pm_raised' = FALSE
            /\ embeddings_file' =
                  <<"file", JsonPut(LoadAllJson(embeddings_file), pm_folder, pm_messages)>>
            /\ pm_wrote' = "json"
    /\ UNCHANGED <<coreVars, collection, mongo_up, manager, pm_module, pm_folder,
                   pm_messages, pm_result>>

\* tools.project_matcher.save_project_embedding returns.  With a manager the
\* document is upserted (the manager returns False when that fails, and
\* nothing is written); without one, _save_to_json_fallback writes the file
\* and catches every exception.
ToolsSaveReturn ==
    /\ pm_pc = "save"
    /\ pm_module = "tools.project_matcher"
    /\ pm_pc' = "idle"
    /\ pm_raised' = FALSE
    /\ IF ManagerAvailable
       THEN /\ manager' = TRUE
            /\ UNCHANGED embeddings_file
            /\ IF mongo_up
               THEN /\ collection' = ReplaceOne(collection, pm_folder, pm_messages)
                    /\ pm_wrote' = "mongo"
               ELSE UNCHANGED <<collection, pm_wrote>>
       ELSE /\ UNCHANGED <<manager, collection>>
            /\ IF embeddings_file[1] = "corrupt"
               THEN UNCHANGED <<embeddings_file, pm_wrote>>
               ELSE /\ embeddings_file' =
                          <<"file", JsonPut(LoadAllJson(embeddings_file), pm_folder, pm_messages)>>
                    /\ pm_wrote' = "json"
    /\ UNCHANGED <<coreVars, mongo_up, pm_module, pm_folder, pm_messages, pm_result>>

ProjectsNext ==
    \/ MongoFlips
    \/ FileCorrupted
    \/ CallFind
    \/ CallSave
    \/ JsonFindReturn
    \/ ToolsFindReturn
    \/ JsonSaveReturn
    \/ ToolsSaveReturn

SpecProjects == Init /\ [][ProjectsNext]_vars

\* -------------------------------------- claims on the project records
\* The step in which find_closest_project returns or raises.
FindReturned == pm_pc = "find" /\ pm_pc' = "idle"

\* The step in which save_project_embedding returns or raises.
SaveReturned == pm_pc = "save" /\ pm_pc' = "idle"

\* The call in progress goes to MongoDB.
UsesMongo == pm_module = "tools.project_matcher" /\ ManagerAvailable

\* The records of the store the call in progress reads or writes.
StoreRecords == IF UsesMongo THEN LoadAllMongo(collection) ELSE LoadAllJson(embeddings_file)

\* The same store's records after the step.
StoreRecordsAfter ==
    IF UsesMongo THEN LoadAllMongo(collection') ELSE LoadAllJson(embeddings_file')

\* Reading or querying the store of the call in progress fails.
StoreFails == IF UsesMongo THEN ~mongo_up ELSE embeddings_file[1] = "corrupt"

\* The similarities of the stored records to the query.
Scores(recs, msgs) ==
    {cosine_similarity(compute_embedding(msgs), recs[i].embedding) : i \in 1..Len(recs)}

\* C15: find_closest_project returns a folder if and only if the maximum
\* similarity over the stored records is at least SIMILARITY_THRESHOLD.
C15_ThresholdBoundary ==
    [][(FindReturned /\ ~StoreFails) =>
          (pm_result'.folder # None <=>
              (/\ StoreRecords # <<>>
               /\ MaxOf(Scores(StoreRecords, pm_messages)) >= SIMILARITY_THRESHOLD))]_vars

\* C15 witness: a folder has been returned for a best score equal to the
\* threshold, while a record scoring below it is stored.
C15_Witness ==
    /\ pm_pc = "idle"
    /\ pm_module = "project_matcher"
    /\ pm_result.folder # None
    /\ pm_result.score = SIMILARITY_THRESHOLD
    /\ \E x \in Scores(LoadAllJson(embeddings_file), pm_messages) : x < SIMILARITY_THRESHOLD

\* The first record, in iteration order, whose similarity to the query is
\* the maximum.
FirstBest(recs, msgs) ==
    CHOOSE i \in 1..Len(recs) :
        /\ cosine_similarity(compute_embedding(msgs), recs[i].embedding) = MaxOf(Scores(recs, msgs))
        /\ \A j \in 1..(i - 1) :
              cosine_similarity(compute_embedding(msgs), recs[j].embedding) < MaxOf(Scores(recs, msgs))

\* C16: a folder returned is that of the first record, in iteration order,
\* whose similarity is the maximum over the stored records, returned with
\* that maximum.
C16_NearestFirstWins ==
    [][(FindReturned /\ ~StoreFails /\ pm_result'.folder # None) =>
          /\ pm_result'.folder = StoreRecords[FirstBest(StoreRecords, pm_messages)].folder
          /\ pm_result'.score = MaxOf(Scores(StoreRecords, pm_messages))]_vars

\* C16 witness: two stored records with different folders tie for the
\* maximum and the first one's folder has been returned.
C16_Witness ==
    /\ pm_pc = "idle"
    /\ pm_module = "project_matcher"
    /\ LET recs == LoadAllJson(embeddings_file)
       IN  /\ Len(recs) = 2
           /\ recs[1].folder # recs[2].folder
           /\ Scores(recs, pm_messages) = {pm_result.score}
           /\ pm_result.folder = recs[1].folder

\* C17: when the store fails, find_closest_project does not raise and
\* returns no folder.
C17_StorageFailureNoMatch ==
    [][(FindReturned /\ StoreFails) =>
          (~pm_raised' /\ pm_result'.folder = None)]_vars

\* The indices of the records named `name`.
Named(recs, name) == {i \in 1..Len(recs) : recs[i].name = name}

C19_SaveAppendsMessages ==
    [][(SaveReturned /\ pm_wrote' # "none" /\ Named(StoreRecords, Basename(pm_folder)) # {}) =>
          \A i \in Named(StoreRecordsAfter, Basename(pm_folder)) :
              StoreRecordsAfter[i].messages =
                  StoredMessages(StoreRecords, Basename(pm_folder)) \o pm_messages]_vars

\* ---------------------------------------------------- KettleDaemon
\* kettle_daemon.py: Tkinter calls periodic_check every check_interval
\* seconds; process_slack_messages runs the pipeline inside that call.
\* The daemon's clock is sampled every DaemonStep seconds, up to
\* DaemonMaxTime.
DaemonStep == 10
DaemonMaxTime == 100

check_interval == 2
slack_check_interval == 6
inactivity_period == 20

\* What the daemon's actions leave alone.
daemonRest == <<batchFile, last_slack_check, last_new_message_ts, pipeline_running,
                ppc, p_combined, runVars, histVars, messages, existing, projVars>>

\* Time passes: while the loop waits for its next periodic_check, which is
\* then due (check_interval is shorter than the step), while the pipeline
\* runs inside process_slack_messages, or after the loop has stopped.
DaemonTick ==
    /\ dpc \in {"waiting", "pipeline", "stopped"}
    /\ now + DaemonStep <= DaemonMaxTime
    /\ now' = now + DaemonStep
    /\ dpc' = IF dpc = "waiting" THEN "due" ELSE dpc
    /\ UNCHANGED <<slack, store, wmFile, last_processed_ts, last_message_time,
                   processing_pending, d_latest_ts, polled_at>>
    /\ UNCHANGED daemonRest

\* periodic_check -> process_slack_messages, up to the pipeline: the
\* throttle (last_slack_check is never assigned after __init__), the fetch
\* and save, the read of the store, the arming of the inactivity timer and
\* the test of the inactivity period.
ProcessSlackMessages ==
    /\ dpc = "due"
    /\ polled_at' = now
    /\ IF now - last_slack_check < slack_check_interval
       THEN /\ dpc' = "waiting"
            /\ UNCHANGED <<store, wmFile, last_message_time, processing_pending, d_latest_ts>>
       ELSE \E api_ok \in BOOLEAN :
               LET combined == Combined(store, FetchRecentMessages(api_ok))
                   pending == processing_pending
                                \/ (combined # <<>> /\ LatestTs(combined) > last_processed_ts)
                   armed_at == IF combined # <<>>
                                  /\ LatestTs(combined) > last_processed_ts
                                  /\ ~processing_pending
                               THEN now ELSE last_message_time
               IN  /\ store' = combined
                   /\ wmFile' = SavedWatermark(combined, wmFile)
                   /\ IF combined = <<>>
                      THEN /\ dpc' = "waiting"
                           /\ UNCHANGED <<last_message_time, processing_pending, d_latest_ts>>
                      ELSE /\ last_message_time' = armed_at
                           /\ processing_pending' = pending
                           /\ IF pending /\ now - armed_at >= inactivity_period
                              THEN dpc' = "pipeline" /\ d_latest_ts' = LatestTs(combined)
                              ELSE dpc' = "waiting" /\ UNCHANGED d_latest_ts
    /\ UNCHANGED <<now, slack, last_processed_ts>>
    /\ UNCHANGED daemonRest

\* extract_tasks.main(), project_matcher.main() and execute.main() return:
\* the watermark is set, processing_pending reset, and periodic_check
\* schedules its next call.
DaemonRunReturns ==
    /\ dpc = "pipeline"
    /\ last_processed_ts' = d_latest_ts
    /\ wmFile' = d_latest_ts
    /\ processing_pending' = FALSE
    /\ dpc' = "waiting"
    /\ UNCHANGED <<now, slack, store, last_message_time, d_latest_ts, polled_at>>
    /\ UNCHANGED daemonRest

\* One of them raises: nothing in process_slack_messages or periodic_check
\* catches it, so self.root.after(...) is not reached and periodic_check is
\* not called again.
DaemonRunRaises ==
    /\ dpc = "pipeline"
    /\ dpc' = "stopped"
    /\ UNCHANGED <<now, slack, store, wmFile, last_processed_ts, last_message_time,
                   processing_pending, d_latest_ts, polled_at>>
    /\ UNCHANGED daemonRest

\* load_last_processed_ts: the float in json/last_processed_ts.txt, 0 when the
\* file holds none.
load_last_processed_ts(file) == file

\* The process is ended and started again: KettleDaemon.__init__ with
\* load_last_processed_ts, then the first periodic_check.
DaemonRestart ==
    /\ last_processed_ts' = load_last_processed_ts(wmFile)
    /\ last_message_time' = 0
    /\ processing_pending' = FALSE
    /\ d_latest_ts' = 0
    /\ dpc' = "due"
    /\ UNCHANGED <<now, slack, store, wmFile, polled_at>>
    /\ UNCHANGED daemonRest

DaemonNext ==
    \/ DaemonTick
    \/ NewMessage
    \/ ProcessSlackMessages
    \/ DaemonRunReturns
    \/ DaemonRunRaises
    \/ DaemonRestart

SpecDaemon == Init /\ [][DaemonNext]_vars

\* The daemon's pipeline is running inside process_slack_messages.
DaemonRunInFlight == dpc = "pipeline"

\* C20: while a pipeline run is in flight the poll loop is not held up: no
\* poll tick is due and untaken.
C20_PollNeverBlocked ==
    ~(DaemonRunInFlight /\ now - polled_at >= check_interval)

\* ------------------------------------------- deferral and cooldown
\* C21: a poll tick that finds the silence elapsed while a run is in
\* flight launches no second run.
C21_DeferWhileInFlight ==
    [][(Inspected /\ \E q \in Runners : InFlight(q))
          => \A r \in Runners : ~Launched(r)]_vars

\* C22: no run is launched while a worker that has released
\* pipeline_running is still within its cooldown_after_run.
C22_NoLaunchInCooldown ==
    [][\A r \in Runners : Launched(r) =>
          \A q \in Runners : rpc[q] = "cooldown" =>
              now - released_at[q] >= cooldown_after_run]_vars

\* ------------------------------------------------ failures and the loop
\* periodic_check has ended on an exception before its root.after(...)
\* call: no further check is scheduled.
LoopStopped == dpc = "stopped"

\* C23: after a failure of a pipeline step the poll loop is still
\* alive, so that it goes on to execute later poll ticks.
C23_PollLoopAlive == ~LoopStopped

\* ------------------------------------------------ watermark and batch
\* The run of worker r ends having passed _update_last_processed_ts.
Succeeded(r) == Ended(r) /\ outcome'[r] = "ok"

\* C24: a successful run leaves the watermark at the larger of the
\* previous watermark and the largest ts in that run's batch.
C24_WatermarkIsBatchMax ==
    [][\A r \in Runners : Succeeded(r) =>
          last_processed_ts' = MaxOf({last_processed_ts} \cup Ts(current_msgs[r]))]_vars

\* C25: the watermark never exceeds last_new_message_ts, in
\* particular in every state reached after a successful run.
C25_WatermarkBelowLastNew == last_processed_ts <= last_new_message_ts

\* A successful run has just moved the watermark up to last_new_message_ts.
C25_Witness ==
    \E r \in Runners :
        /\ rpc[r] = "cooldown" /\ outcome[r] = "ok"
        /\ last_processed_ts = snapshot_latest_ts[r]
        /\ last_processed_ts > 0
        /\ last_processed_ts = last_new_message_ts

\* fetch_messages in extract_tasks: the messages loaded from
\* json/messages.json, from which the texts given to extraction are taken.
FetchedForExtraction == store

\* main in project_matcher: the messages loaded from json/messages.json.
FetchedForMatching == store

\* C26: the messages that extraction and project resolution read in a
\* run are exactly the messages of that run's snapshot batch.
C26_ExtractsOwnBatch ==
    [][\A r \in Runners : Ended(r) =>
          /\ FetchedForExtraction = current_msgs[r]
          /\ FetchedForMatching = current_msgs[r]]_vars

DaemonRunStarted == dpc = "due" /\ dpc' = "pipeline"

\* C28: the pipeline is not run before inactivity_period has elapsed
\* since the newest message observed; a message is never observed before its
\* ts, so the period has then elapsed since that ts as well.
C28_TimerResetByNewMessage ==
    [][DaemonRunStarted => now - LatestTs(store') >= inactivity_period]_vars

\* ------------------------------------------------ release of the guard
\* The scheduler over a shorter stretch of time, for the checks of progress.
FairMaxTime == 120

FairTick == Tick /\ now' <= FairMaxTime

FairNext ==
    \/ FairTick
    \/ NewMessage
    \/ PollFetch
    \/ PollSave
    \/ PollInspect
    \/ \E r \in Runners : RunBegin(r)
    \/ \E r \in Runners : RunSwap(r)
    \/ \E r \in Runners : RunSucceed(r)
    \/ \E r \in Runners : RunFail(r)
    \/ \E r \in Runners : RunExit(r)

\* The worker threads are scheduled and the pipeline steps return or raise:
\* a started worker reaches its first statement, its swap and its way out.
SpecFair ==
    /\ Init /\ [][FairNext]_vars
    /\ \A r \in Runners : WF_vars(RunBegin(r))
    /\ \A r \in Runners : WF_vars(RunSwap(r))
    /\ \A r \in Runners : WF_vars(RunSucceed(r) \/ RunFail(r))

\* C29: every started run of _run_pipeline gets to the release of
\* pipeline_running, on the success path and on the exception path.
C29_RunReleasesGuard ==
    \A r \in Runners :
        (rpc[r] = "start") ~> (rpc[r] = "cooldown" /\ ~pipeline_running)

\* A failed run has ended and pipeline_running is False again.
C29_Witness ==
    \E r \in Runners :
        rpc[r] = "cooldown" /\ outcome[r] = "failed" /\ ~pipeline_running

\* ------------------------------------------------ restart
\* C30: at a restart every stored message newer than the watermark
\* of the last successful run is newer than the reloaded watermark too, and
\* the reloaded watermark is not ahead of that of the last successful run.
C30_RestartRecovers ==
    [][DaemonRestart =>
          /\ \A i \in 1..Len(store) :
                store[i].ts > last_processed_ts => store[i].ts > last_processed_ts'
          /\ last_processed_ts' <= last_processed_ts]_vars

====
